---- MODULE Spec2Model ----
(***************************************************************************)
(* A model of flexbuffers-js (src/src/lib.rs): the FlexBuffer container,   *)
(* the recursive encoder serialize_value, the recursive decoder            *)
(* deserialize_value, and the one-shot functions serialize, deserialize    *)
(* and is_valid_flexbuffer.                                                *)
(*                                                                         *)
(* serde_json::Value is a record with a tag field t.  Text is a sequence   *)
(* of one-character strings, so that serde_json::to_string and             *)
(* serde_json::from_str are a real printer and a real parser.  A           *)
(* flexbuffer is a sequence of cells: the node region, then the packed     *)
(* root type, then the root width, which is where Reader::get_root looks.  *)
(***************************************************************************)
EXTENDS Integers, Sequences, FiniteSets, TLC

(***************************************************************************)
(* Bounds of the model.                                                    *)
(***************************************************************************)
\* longest Array given to the encoder, longest vector in a crafted buffer
MaxLen == 2
\* deepest nesting of binary vectors in a crafted buffer
MaxNest == 3

(***************************************************************************)
(* Text.                                                                   *)
(***************************************************************************)
Digits == <<"0", "1", "2", "3", "4", "5", "6", "7", "8", "9">>

IsDigit(c) == \E i \in 1..10 : Digits[i] = c

DigitVal(c) == (CHOOSE i \in 1..10 : Digits[i] = c) - 1

\* the order of the characters of the model's alphabet (their ASCII order)
CharOrder ==
    <<" ", "\"", ",", "-", ".", "0", "1", "2", "3", "4", "5", "6", "7", "8",
      "9", ":", "[", "\\", "]", "a", "b", "e", "f", "l", "n", "r", "s", "t",
      "u", "x", "{", "}">>

CharCode(c) == CHOOSE i \in 1..Len(CharOrder) : CharOrder[i] = c

RECURSIVE TextLess(_, _)
\* str::cmp, the order of the keys of a serde_json::Map (a BTreeMap)
TextLess(a, b) ==
    IF b = <<>> THEN FALSE
    ELSE IF a = <<>> THEN TRUE
    ELSE IF Head(a) = Head(b) THEN TextLess(Tail(a), Tail(b))
    ELSE CharCode(Head(a)) < CharCode(Head(b))

RECURSIVE SortedKeys(_)
\* the keys of a map in ascending order
SortedKeys(ks) ==
    IF ks = {} THEN <<>>
    ELSE LET k == CHOOSE x \in ks : \A y \in ks : x = y \/ TextLess(x, y)
         IN <<k>> \o SortedKeys(ks \ {k})

(***************************************************************************)
(* serde_json::Value.                                                      *)
(***************************************************************************)
Null == [t |-> "null"]

Bool(b) == [t |-> "bool", b |-> b]

\* a Number in integer form (N::PosInt / N::NegInt within i64)
IntNum(n) == [t |-> "num", form |-> "int", n |-> n, e |-> 0]

\* a Number in float form: the f64 n / 10^e, e >= 1, normalised
FloatNum(n, e) == [t |-> "num", form |-> "float", n |-> n, e |-> e]

\* a Number with neither an i64 nor an f64 form
NoneNum == [t |-> "num", form |-> "none", n |-> 0, e |-> 0]

String(s) == [t |-> "str", s |-> s]

Array(a) == [t |-> "arr", a |-> a]

Object(m) == [t |-> "obj", m |-> m]

\* Number::as_i64
as_i64(v) == IF v.form = "int" THEN [some |-> TRUE, i |-> v.n]
             ELSE [some |-> FALSE, i |-> 0]

\* Number::as_f64
as_f64(v) == IF v.form = "float" THEN [some |-> TRUE, n |-> v.n, e |-> v.e]
             ELSE IF v.form = "int" THEN [some |-> TRUE, n |-> v.n * 10, e |-> 1]
             ELSE [some |-> FALSE, n |-> 0, e |-> 0]

(***************************************************************************)
(* serde_json::to_string.                                                  *)
(***************************************************************************)
RECURSIVE NatText(_)
NatText(n) == IF n < 10 THEN <<Digits[n + 1]>>
              ELSE NatText(n \div 10) \o <<Digits[(n % 10) + 1]>>

RECURSIVE Pow10(_)
Pow10(e) == IF e = 0 THEN 1 ELSE 10 * Pow10(e - 1)

RECURSIVE FracText(_, _)
\* the e digits of the fraction n / 10^e
FracText(n, e) == IF e = 0 THEN <<>>
                  ELSE FracText(n \div 10, e - 1) \o <<Digits[(n % 10) + 1]>>

NumberText(v) ==
    LET a == IF v.n < 0 THEN 0 - v.n ELSE v.n
        sign == IF v.n < 0 THEN <<"-">> ELSE <<>>
    IN CASE v.form = "int" -> sign \o NatText(a)
         [] v.form = "float" ->
                sign \o NatText(a \div Pow10(v.e)) \o <<".">>
                     \o FracText(a % Pow10(v.e), v.e)
         [] OTHER -> <<"1", "e", "9", "9", "9">>

RECURSIVE Escaped(_)
Escaped(s) ==
    IF s = <<>> THEN <<>>
    ELSE IF Head(s) \in {"\"", "\\"} THEN <<"\\", Head(s)>> \o Escaped(Tail(s))
    ELSE <<Head(s)>> \o Escaped(Tail(s))

Quoted(s) == <<"\"">> \o Escaped(s) \o <<"\"">>

RECURSIVE to_string(_)
RECURSIVE ElemsText(_)
RECURSIVE MembersText(_, _)
ElemsText(a) ==
    IF a = <<>> THEN <<>>
    ELSE IF Len(a) = 1 THEN to_string(a[1])
    ELSE to_string(a[1]) \o <<",">> \o ElemsText(Tail(a))

MembersText(ks, m) ==
    IF ks = <<>> THEN <<>>
    ELSE LET one == Quoted(ks[1]) \o <<":">> \o to_string(m[ks[1]])
         IN IF Len(ks) = 1 THEN one
            ELSE one \o <<",">> \o MembersText(Tail(ks), m)

to_string(v) ==
    CASE v.t = "null" -> <<"n", "u", "l", "l">>
      [] v.t = "bool" -> IF v.b THEN <<"t", "r", "u", "e">>
                         ELSE <<"f", "a", "l", "s", "e">>
      [] v.t = "num" -> NumberText(v)
      [] v.t = "str" -> Quoted(v.s)
      [] v.t = "arr" -> <<"[">> \o ElemsText(v.a) \o <<"]">>
      [] v.t = "obj" ->
             <<"{">> \o MembersText(SortedKeys(DOMAIN v.m), v.m) \o <<"}">>

(***************************************************************************)
(* serde_json::from_str.  A parse returns the value and the unread text.   *)
(* Exponent notation and \u escapes are outside the model's alphabet.      *)
(***************************************************************************)
ParseFail == [ok |-> FALSE, v |-> Null, rest |-> <<>>]

ParseOk(v, rest) == [ok |-> TRUE, v |-> v, rest |-> rest]

RECURSIVE SkipWs(_)
SkipWs(s) == IF s # <<>> /\ Head(s) = " " THEN SkipWs(Tail(s)) ELSE s

Drop(s, k) == SubSeq(s, k + 1, Len(s))

HasPrefix(s, p) == Len(s) >= Len(p) /\ SubSeq(s, 1, Len(p)) = p

RECURSIVE DigitsLen(_)
\* how many digits the text starts with
DigitsLen(s) == IF s # <<>> /\ IsDigit(Head(s)) THEN 1 + DigitsLen(Tail(s)) ELSE 0

RECURSIVE NatOf(_)
NatOf(ds) == IF ds = <<>> THEN 0
             ELSE 10 * NatOf(SubSeq(ds, 1, Len(ds) - 1)) + DigitVal(ds[Len(ds)])

RECURSIVE NormFloat(_, _)
\* the same f64 with no trailing zero in its fraction, one digit at least
NormFloat(n, e) == IF e > 1 /\ n % 10 = 0 THEN NormFloat(n \div 10, e - 1)
                   ELSE FloatNum(n, e)

ParseNumber(s) ==
    LET neg == s # <<>> /\ Head(s) = "-"
        s1 == IF neg THEN Tail(s) ELSE s
        il == IF s1 # <<>> /\ Head(s1) = "0" THEN 1 ELSE DigitsLen(s1)
        ip == NatOf(SubSeq(s1, 1, il))
        s2 == Drop(s1, il)
        frac == s2 # <<>> /\ Head(s2) = "."
        fl == IF frac THEN DigitsLen(Tail(s2)) ELSE 0
        fp == NatOf(SubSeq(s2, 2, fl + 1))
        sg(x) == IF neg THEN 0 - x ELSE x
    IN IF il = 0 THEN ParseFail
       ELSE IF frac
            THEN IF fl = 0 THEN ParseFail
                 ELSE ParseOk(NormFloat(sg(ip * Pow10(fl) + fp), fl),
                              Drop(s2, fl + 1))
       ELSE IF neg /\ ip = 0 THEN ParseOk(FloatNum(0, 1), s2)
       ELSE ParseOk(IntNum(sg(ip)), s2)

RECURSIVE StringBody(_, _)
\* the text after an opening quote, up to the closing quote
StringBody(s, acc) ==
    IF s = <<>> THEN ParseFail
    ELSE IF Head(s) = "\"" THEN ParseOk(String(acc), Tail(s))
    ELSE IF Head(s) = "\\"
         THEN IF Len(s) >= 2 /\ s[2] \in {"\"", "\\"}
              THEN StringBody(Drop(s, 2), Append(acc, s[2]))
              ELSE ParseFail
    ELSE StringBody(Tail(s), Append(acc, Head(s)))

RECURSIVE ParseValue(_)
RECURSIVE ParseElems(_, _)
RECURSIVE ParseMembers(_, _)
\* the elements of an array after "[" or ",": one value, then "," or "]"
ParseElems(s, acc) ==
    LET r == ParseValue(s)
        s1 == SkipWs(r.rest)
    IN IF ~r.ok \/ s1 = <<>> THEN ParseFail
       ELSE IF Head(s1) = "]" THEN ParseOk(Array(Append(acc, r.v)), Tail(s1))
       ELSE IF Head(s1) = "," THEN ParseElems(Tail(s1), Append(acc, r.v))
       ELSE ParseFail

\* the members of an object after "{" or ",": "key" : value, then "," or "}"
ParseMembers(s, m) ==
    LET s0 == SkipWs(s)
        k == IF s0 # <<>> /\ Head(s0) = "\"" THEN StringBody(Tail(s0), <<>>)
             ELSE ParseFail
        s1 == SkipWs(k.rest)
        r == IF k.ok /\ s1 # <<>> /\ Head(s1) = ":" THEN ParseValue(Tail(s1))
             ELSE ParseFail
        s2 == SkipWs(r.rest)
        m2 == [x \in DOMAIN m \cup {k.v.s} |-> IF x = k.v.s THEN r.v ELSE m[x]]
    IN IF ~r.ok \/ s2 = <<>> THEN ParseFail
       ELSE IF Head(s2) = "}" THEN ParseOk(Object(m2), Tail(s2))
       ELSE IF Head(s2) = "," THEN ParseMembers(Tail(s2), m2)
       ELSE ParseFail

ParseValue(s0) ==
    LET s == SkipWs(s0)
    IN IF s = <<>> THEN ParseFail
       ELSE CASE HasPrefix(s, <<"n", "u", "l", "l">>) -> ParseOk(Null, Drop(s, 4))
              [] HasPrefix(s, <<"t", "r", "u", "e">>) -> ParseOk(Bool(TRUE), Drop(s, 4))
              [] HasPrefix(s, <<"f", "a", "l", "s", "e">>) ->
                     ParseOk(Bool(FALSE), Drop(s, 5))
              [] Head(s) = "\"" -> StringBody(Tail(s), <<>>)
              [] Head(s) = "-" \/ IsDigit(Head(s)) -> ParseNumber(s)
              [] Head(s) = "[" ->
                     IF HasPrefix(SkipWs(Tail(s)), <<"]">>)
                     THEN ParseOk(Array(<<>>), Tail(SkipWs(Tail(s))))
                     ELSE ParseElems(Tail(s), <<>>)
              [] Head(s) = "{" ->
                     IF HasPrefix(SkipWs(Tail(s)), <<"}">>)
                     THEN ParseOk(Object(<<>>), Tail(SkipWs(Tail(s))))
                     ELSE ParseMembers(Tail(s), <<>>)
              [] OTHER -> ParseFail

\* serde_json::from_str::<Value>: one value and nothing but white space after
from_str(s) ==
    LET r == ParseValue(s)
    IN IF r.ok /\ SkipWs(r.rest) = <<>> THEN [ok |-> TRUE, v |-> r.v]
       ELSE [ok |-> FALSE, v |-> Null]

(***************************************************************************)
(* Binary nodes.  A node is its type tag and its payload; what a reader    *)
(* takes from the payload depends on the tag alone.  i is the integer (or  *)
(* the bool, 0 or 1), fn / 10^fe the float, s the text, kids the children  *)
(* of a vector or the values of a map, keys the keys of a map.             *)
(***************************************************************************)
Node(ty, i, fn, fe, s, kids, keys) ==
    [fxb_type |-> ty, i |-> i, fn |-> fn, fe |-> fe, s |-> s,
     kids |-> kids, keys |-> keys]

NullNode == Node("Null", 0, 0, 1, <<>>, <<>>, <<>>)

BoolNode(b) == Node("Bool", IF b THEN 1 ELSE 0, 0, 1, <<>>, <<>>, <<>>)

IntNode(i) == Node("Int", i, 0, 1, <<>>, <<>>, <<>>)

FloatNode(n, e) == Node("Float", 0, n, e, <<>>, <<>>, <<>>)

StringNode(s) == Node("String", 0, 0, 1, s, <<>>, <<>>)

VectorNode(ty, kids) == Node(ty, 0, 0, 1, <<>>, kids, <<>>)

MapNode(keys, kids) == Node("Map", 0, 0, 1, <<>>, kids, keys)

\* the tags deserialize_value has an arm for
VectorTypes ==
    {"Vector", "VectorInt", "VectorUInt", "VectorFloat", "VectorBool",
     "VectorKey", "VectorString", "VectorInt2", "VectorInt3", "VectorInt4",
     "VectorUInt2", "VectorUInt3", "VectorUInt4", "VectorFloat2",
     "VectorFloat3", "VectorFloat4"}

\* the other tags of flexbuffers::FlexBufferType
OtherTypes == {"Key", "IndirectInt", "IndirectUInt", "IndirectFloat", "Blob"}

FlexBufferTypes ==
    {"Null", "Bool", "Int", "UInt", "Float", "String", "Map"}
        \cup VectorTypes \cup OtherTypes

\* FlexBufferType::is_inline: the value sits in the parent, not behind an offset
is_inline(ty) == ty \in {"Null", "Bool", "Int", "UInt", "Float"}

\* the type of the elements of a typed vector
ElemType(ty) ==
    CASE ty \in {"VectorInt", "VectorInt2", "VectorInt3", "VectorInt4"} -> "Int"
      [] ty \in {"VectorUInt", "VectorUInt2", "VectorUInt3", "VectorUInt4"} -> "UInt"
      [] ty \in {"VectorFloat", "VectorFloat2", "VectorFloat3", "VectorFloat4"} -> "Float"
      [] ty = "VectorBool" -> "Bool"
      [] ty = "VectorKey" -> "Key"
      [] ty = "VectorString" -> "String"
      [] OTHER -> "Null"

(***************************************************************************)
(* flexbuffers::Builder.                                                   *)
(***************************************************************************)
\* the type end_vector gives a vector: typed when every element is an Int,
\* a Float or a Bool, of fixed length when it has 2 to 4 numbers
find_vector_type(kids) ==
    IF kids = <<>> \/ \E k \in 1..Len(kids) : kids[k].fxb_type # kids[1].fxb_type
    THEN "Vector"
    ELSE CASE kids[1].fxb_type = "Int" ->
                  CASE Len(kids) = 2 -> "VectorInt2"
                    [] Len(kids) = 3 -> "VectorInt3"
                    [] Len(kids) = 4 -> "VectorInt4"
                    [] OTHER -> "VectorInt"
           [] kids[1].fxb_type = "Float" ->
                  CASE Len(kids) = 2 -> "VectorFloat2"
                    [] Len(kids) = 3 -> "VectorFloat3"
                    [] Len(kids) = 4 -> "VectorFloat4"
                    [] OTHER -> "VectorFloat"
           [] kids[1].fxb_type = "Bool" -> "VectorBool"
           [] OTHER -> "Vector"

end_vector(kids) == VectorNode(find_vector_type(kids), kids)

\* end_map: the entries pushed, a function from key to node, sorted by key
end_map(entries) ==
    LET keys == SortedKeys(DOMAIN entries)
    IN MapNode(keys, [k \in 1..Len(keys) |-> entries[keys[k]]])

(***************************************************************************)
(* Buffers.  A cell is a byte region of a buffer: a node region, a packed  *)
(* type byte, a width byte, or bytes that are none of them.                *)
(***************************************************************************)
Cell(kind, node, ty, w) == [kind |-> kind, node |-> node, ty |-> ty, w |-> w]

NodeCell(n) == Cell("node", n, "", 0)

TypeCell(ty) == Cell("type", NullNode, ty, 0)

WidthCell(w) == Cell("width", NullNode, "", w)

JunkCell == Cell("junk", NullNode, "", 0)

\* Builder::take_buffer: the node region, the root's packed type, its width
take_buffer(root) == <<NodeCell(root), TypeCell(root.fxb_type), WidthCell(1)>>

\* Reader::get_root: the root is found from the tail of the buffer
get_root(buffer) ==
    LET end == Len(buffer)
        fail(e) == [ok |-> FALSE, reader |-> NullNode, err |-> e]
    IN IF end < 3 THEN fail("FlexbufferOutOfBounds")
       ELSE IF ~(buffer[end].kind = "width" /\ buffer[end].w \in {1, 2, 4, 8})
            THEN fail("InvalidRootWidth")
       ELSE IF ~(buffer[end - 1].kind = "type"
                 /\ buffer[end - 1].ty \in FlexBufferTypes)
            THEN fail("InvalidPackedType")
       ELSE IF ~is_inline(buffer[end - 1].ty) /\ buffer[end - 2].kind # "node"
            THEN fail("FlexbufferOutOfBounds")
       ELSE [ok |-> TRUE,
             reader |-> [buffer[end - 2].node
                            EXCEPT !.fxb_type = buffer[end - 1].ty],
             err |-> ""]

\* VectorReader::idx: the elements of a typed vector carry no tag of their own
idx(reader, k) ==
    IF reader.fxb_type \in VectorTypes \ {"Vector"}
    THEN [reader.kids[k] EXCEPT !.fxb_type = ElemType(reader.fxb_type)]
    ELSE reader.kids[k]

(***************************************************************************)
(* The errors of lib.rs, by their message, under the names of the spec.    *)
(***************************************************************************)
EmptyBuffer == "Buffer is empty"

CorruptRoot == "get_root failed"

InvalidBuffer == "Invalid flexbuffer"

InvalidNumber == "Invalid number"

UnsupportedType == "Unsupported flexbuffer type"

(***************************************************************************)
(* FlexBuffer::serialize_value.                                            *)
(***************************************************************************)
PushedNode_quoted(item) ==
    CASE item.t = "null" -> <<NullNode>>
      [] item.t = "bool" -> <<BoolNode(item.b)>>
      [] item.t = "num" ->
             IF as_i64(item).some THEN <<IntNode(as_i64(item).i)>>
             ELSE IF as_f64(item).some
                  THEN <<FloatNode(as_f64(item).n, as_f64(item).e)>>
             ELSE <<>>
      [] item.t = "str" -> <<StringNode(item.s)>>
      [] OTHER -> <<StringNode(Quoted(to_string(item)))>>

\* what one element of an Array or one value of an Object pushes: a node,
\* or nothing for a Number with neither form
PushedNode(item) ==
    CASE item.t = "null" -> <<NullNode>>
      [] item.t = "bool" -> <<BoolNode(item.b)>>
      [] item.t = "num" ->
             IF as_i64(item).some THEN <<IntNode(as_i64(item).i)>>
             ELSE IF as_f64(item).some
                  THEN <<FloatNode(as_f64(item).n, as_f64(item).e)>>
             ELSE <<>>
      [] item.t = "str" -> <<StringNode(item.s)>>
      [] OTHER -> <<StringNode(to_string(item))>>

RECURSIVE PushItems(_, _)
\* the loop over the elements of an Array
PushItems(vec, arr) ==
    IF arr = <<>> THEN vec
    ELSE PushItems(vec \o PushedNode(Head(arr)), Tail(arr))

\* the loop over the entries of an Object
PushEntries(obj) ==
    LET pushed == {key \in DOMAIN obj : PushedNode(obj[key]) # <<>>}
    IN [key \in pushed |-> PushedNode(obj[key])[1]]

serialize_value(value) ==
    LET built(n) == [ok |-> TRUE, root |-> n, err |-> ""]
    IN CASE value.t = "null" -> built(NullNode)
         [] value.t = "bool" -> built(BoolNode(value.b))
         [] value.t = "num" ->
                IF as_i64(value).some THEN built(IntNode(as_i64(value).i))
                ELSE IF as_f64(value).some
                     THEN built(FloatNode(as_f64(value).n, as_f64(value).e))
                ELSE [ok |-> FALSE, root |-> NullNode, err |-> InvalidNumber]
         [] value.t = "str" -> built(StringNode(value.s))
         [] value.t = "arr" -> built(end_vector(PushItems(<<>>, value.a)))
         [] value.t = "obj" -> built(end_map(PushEntries(value.m)))

(***************************************************************************)
(* FlexBuffer::deserialize_value.  depth is the depth the recursion of the *)
(* call reached.                                                           *)
(***************************************************************************)
Decoded(v, d) == [ok |-> TRUE, v |-> v, err |-> "", depth |-> d]

DecodeErr(e, d) == [ok |-> FALSE, v |-> Null, err |-> e, depth |-> d]

Max(a, b) == IF a >= b THEN a ELSE b

PushChild_null(arr, r) == Append(arr, r.v)

\* the match on the decode of a child: Ok(val) => arr.push(val), Err(_) => {}
PushChild(arr, r) == IF r.ok THEN Append(arr, r.v) ELSE arr

\* the match on the decode of an entry: Ok(value) => obj.insert(key, value)
InsertEntry(obj, key, r) ==
    IF r.ok THEN [x \in DOMAIN obj \cup {key} |-> IF x = key THEN r.v ELSE obj[x]]
    ELSE obj

RECURSIVE deserialize_value(_)
RECURSIVE VectorLoop(_, _, _, _)
RECURSIVE MapLoop(_, _, _, _)
\* the loop over vec.idx(k): a child that fails is skipped
VectorLoop(reader, k, arr, d) ==
    IF k > Len(reader.kids) THEN Decoded(Array(arr), 1 + d)
    ELSE LET r == deserialize_value(idx(reader, k))
         IN VectorLoop(reader, k + 1, PushChild(arr, r), Max(d, r.depth))

\* the loop over the entries of a map: an entry that fails is skipped
MapLoop(reader, k, obj, d) ==
    IF k > Len(reader.kids) THEN Decoded(Object(obj), 1 + d)
    ELSE LET r == deserialize_value(reader.kids[k])
         IN MapLoop(reader, k + 1, InsertEntry(obj, reader.keys[k], r),
                    Max(d, r.depth))

deserialize_value(reader) ==
    CASE reader.fxb_type = "Null" -> Decoded(Null, 1)
      [] reader.fxb_type = "Bool" -> Decoded(Bool(reader.i # 0), 1)
      [] reader.fxb_type \in {"Int", "UInt"} -> Decoded(IntNum(reader.i), 1)
      [] reader.fxb_type = "Float" ->
             \* fe = 0 stands for a NaN or an infinity: from_f64 is None
             IF reader.fe = 0 THEN Decoded(IntNum(0), 1)
             ELSE Decoded(FloatNum(reader.fn, reader.fe), 1)
      [] reader.fxb_type = "String" ->
             LET json_value == from_str(reader.s)
             IN IF json_value.ok
                THEN IF json_value.v.t = "str" THEN Decoded(String(reader.s), 1)
                     ELSE Decoded(json_value.v, 1)
                ELSE Decoded(String(reader.s), 1)
      [] reader.fxb_type \in VectorTypes -> VectorLoop(reader, 1, <<>>, 0)
      [] reader.fxb_type = "Map" -> MapLoop(reader, 1, <<>>, 0)
      [] OTHER -> DecodeErr(UnsupportedType, 1)

(***************************************************************************)
(* The methods of FlexBuffer, as functions of the stored bytes.            *)
(***************************************************************************)
\* FlexBuffer::new
FlexBuffer_new == <<>>

FlexBuffer_serialize_append(data, value) ==
    LET r == serialize_value(value)
    IN IF r.ok THEN [ok |-> TRUE, data |-> data \o take_buffer(r.root), err |-> ""]
       ELSE [ok |-> FALSE, data |-> data, err |-> r.err]

\* FlexBuffer::serialize: the bytes stored after the call, and its result
FlexBuffer_serialize(data, value) ==
    LET r == serialize_value(value)
    IN IF r.ok THEN [ok |-> TRUE, data |-> take_buffer(r.root), err |-> ""]
       ELSE [ok |-> FALSE, data |-> data, err |-> r.err]

FlexBuffer_deserialize_nocheck(data) ==
    IF ~get_root(data).ok THEN DecodeErr(CorruptRoot, 0)
    ELSE deserialize_value(get_root(data).reader)

\* FlexBuffer::deserialize
FlexBuffer_deserialize(data) ==
    IF data = <<>> THEN DecodeErr(EmptyBuffer, 0)
    ELSE IF ~get_root(data).ok THEN DecodeErr(CorruptRoot, 0)
    ELSE deserialize_value(get_root(data).reader)

get_buffer_truncated(data) == SubSeq(data, 1, Len(data) - 1)

\* FlexBuffer::get_buffer
get_buffer(data) == data

from_buffer_unchecked(buffer) == [ok |-> TRUE, data |-> buffer, err |-> ""]

\* FlexBuffer::from_buffer
from_buffer(buffer) ==
    IF get_root(buffer).ok THEN [ok |-> TRUE, data |-> buffer, err |-> ""]
    ELSE [ok |-> FALSE, data |-> <<>>, err |-> InvalidBuffer]

\* FlexBuffer::size
size(data) == Len(data)

(***************************************************************************)
(* The one-shot functions.                                                 *)
(***************************************************************************)
serialize(value) ==
    LET fb == FlexBuffer_serialize(FlexBuffer_new, value)
    IN IF fb.ok THEN [ok |-> TRUE, bytes |-> get_buffer(fb.data), err |-> ""]
       ELSE [ok |-> FALSE, bytes |-> <<>>, err |-> fb.err]

deserialize(buffer) ==
    LET fb == from_buffer(buffer)
    IN IF fb.ok THEN FlexBuffer_deserialize(fb.data)
       ELSE DecodeErr(fb.err, 0)

is_valid_flexbuffer_len(buffer) == Len(buffer) >= 3

is_valid_flexbuffer(buffer) == get_root(buffer).ok

(***************************************************************************)
(* The inputs: the values given to the encoder and the buffers given to    *)
(* from_buffer, deserialize and is_valid_flexbuffer.                       *)
(***************************************************************************)
SeqsUpTo(S, n) == UNION {[1..k -> S] : k \in 0..n}

StringTexts ==
    {<<>>, <<"x">>, <<"4", "2">>, <<"t", "r", "u", "e">>, <<"n", "u", "l", "l">>,
     <<"[", "1", "]">>, <<"\"", "x", "\"">>, <<"1", ".", "5">>, <<"{", "}">>,
     <<" ", "1">>, <<"[", "1">>}

ScalarValues ==
    {Null, Bool(TRUE), Bool(FALSE), IntNum(0), IntNum(42), IntNum(0 - 7),
     FloatNum(420, 1), FloatNum(15, 1), NoneNum}
        \cup {String(s) : s \in StringTexts}

Keys == {<<"a">>, <<"b">>}

ElemPool == {Null, Bool(TRUE), IntNum(1), String(<<"x">>), NoneNum}

NestPool ==
    {IntNum(2),
     Array(<<IntNum(1), String(<<"4", "2">>)>>),
     Array(<<Array(<<Null>>), Array(<<>>)>>),
     Object(<<"a">> :> Array(<<Bool(TRUE)>>))}

ObjPool ==
    {Bool(FALSE), IntNum(1), String(<<"x">>), NoneNum,
     Array(<<IntNum(1), IntNum(2)>>),
     Object(<<"b">> :> Null)}

ArrayValues ==
    {Array(a) : a \in SeqsUpTo(ElemPool, MaxLen) \cup SeqsUpTo(NestPool, MaxLen)}
        \cup {Array(<<FloatNum(15, 1), FloatNum(420, 1)>>),
              Array(<<Bool(TRUE), Bool(FALSE)>>),
              Array(<<String(<<"4", "2">>), String(<<"x">>)>>),
              Array(<<Array(<<IntNum(1), IntNum(2)>>),
                      Array(<<IntNum(3), IntNum(4)>>)>>),
              Array(<<Array(<<NoneNum>>)>>)}

ObjectValues ==
    {Object(m) : m \in UNION {[ks -> ObjPool] : ks \in SUBSET Keys}}
        \cup {Object(<<"a">> :> IntNum(1)
                     @@ <<"b">> :> Array(<<Bool(TRUE), Null, String(<<"x">>)>>))}

Values == ScalarValues \cup ArrayValues \cup ObjectValues

\* nodes a crafted buffer may hold: every tag, supported or not
LeafNodes ==
    {NullNode, BoolNode(TRUE), IntNode(7), FloatNode(15, 1), FloatNode(0, 0),
     StringNode(<<"x">>), StringNode(<<"[", "1", "]">>)}
        \cup {[IntNode(7) EXCEPT !.fxb_type = ty] :
                  ty \in {"UInt", "IndirectInt", "Blob"}}
        \cup {[StringNode(<<"k">>) EXCEPT !.fxb_type = "Key"]}

KidPool == {IntNode(7), [IntNode(7) EXCEPT !.fxb_type = "Blob"]}

RECURSIVE NestedVectors(_)
\* vectors of untyped children, nested up to d deep
NestedVectors(d) ==
    IF d = 1 THEN {VectorNode("Vector", kids) : kids \in SeqsUpTo(KidPool, MaxLen)}
    ELSE NestedVectors(d - 1)
             \cup {VectorNode("Vector", <<n>>) : n \in NestedVectors(d - 1)}

ContainerNodes ==
    NestedVectors(MaxNest)
        \cup {VectorNode(ty, <<IntNode(7), IntNode(8)>>) :
                  ty \in {"VectorInt2", "VectorUInt2", "VectorKey", "VectorBool"}}
        \cup {MapNode(<<<<"a">>, <<"b">>>>, <<k1, k2>>) :
                  k1 \in KidPool,
                  k2 \in KidPool \cup {VectorNode("Vector", <<IntNode(7)>>)}}

CraftedNodes == LeafNodes \cup ContainerNodes

ValidBuffers ==
    {<<NodeCell(n), TypeCell(n.fxb_type), WidthCell(1)>> : n \in CraftedNodes}
        \cup {<<JunkCell, NodeCell(IntNode(7)), TypeCell("Int"), WidthCell(8)>>}

InvalidBuffers ==
    {<<>>,
     <<JunkCell>>,
     <<TypeCell("Int"), WidthCell(1)>>,
     <<NodeCell(IntNode(7)), TypeCell("Int"), WidthCell(3)>>,
     <<NodeCell(IntNode(7)), TypeCell("Int"), JunkCell>>,
     <<NodeCell(IntNode(7)), TypeCell("Invalid"), WidthCell(1)>>,
     <<JunkCell, TypeCell("String"), WidthCell(1)>>}

Buffers == ValidBuffers \cup InvalidBuffers

(***************************************************************************)
(* The state: the bytes of the container, and the last call with its       *)
(* arguments and its result.                                               *)
(***************************************************************************)
VARIABLES data, res

vars == <<data, res>>

Call(op, value, buffer, ok, err, v, bytes, n, depth) ==
    [op |-> op, value |-> value, buffer |-> buffer, ok |-> ok, err |-> err,
     v |-> v, bytes |-> bytes, n |-> n, depth |-> depth]

Init ==
    /\ data = FlexBuffer_new
    /\ res = Call("new", Null, <<>>, TRUE, "", Null, <<>>, 0, 0)

New ==
    /\ data' = FlexBuffer_new
    /\ res' = Call("new", Null, <<>>, TRUE, "", Null, <<>>, 0, 0)

Serialize(value) ==
    LET r == FlexBuffer_serialize(data, value)
    IN /\ data' = r.data
       /\ res' = Call("serialize", value, <<>>, r.ok, r.err, Null, <<>>, 0, 0)

Deserialize ==
    LET r == FlexBuffer_deserialize(data)
    IN /\ res' = Call("deserialize", Null, <<>>, r.ok, r.err, r.v, <<>>, 0, r.depth)
       /\ UNCHANGED data

GetBuffer ==
    /\ res' = Call("get_buffer", Null, <<>>, TRUE, "", Null, get_buffer(data), 0, 0)
    /\ UNCHANGED data

\* from_buffer makes a container; when it does, that is the container the
\* later calls are made on
FromBuffer(buffer) ==
    LET r == from_buffer(buffer)
    IN /\ data' = IF r.ok THEN r.data ELSE data
       /\ res' = Call("from_buffer", Null, buffer, r.ok, r.err, Null, <<>>, 0, 0)

Size ==
    /\ res' = Call("size", Null, <<>>, TRUE, "", Null, <<>>, size(data), 0)
    /\ UNCHANGED data

Next ==
    \/ New
    \/ \E value \in Values : Serialize(value)
    \/ Deserialize
    \/ GetBuffer
    \/ \E buffer \in Buffers \cup {get_buffer(data)} : FromBuffer(buffer)
    \/ Size

Spec == Init /\ [][Next]_vars

(***************************************************************************)
(* The one-shot functions, on their own: no container is kept.             *)
(***************************************************************************)
OneShotSerialize(value) ==
    LET r == serialize(value)
    IN /\ res' = Call("serialize", value, <<>>, r.ok, r.err, Null, r.bytes, 0, 0)
       /\ UNCHANGED data

OneShotDeserialize(buffer) ==
    LET r == deserialize(buffer)
    IN /\ res' = Call("deserialize", Null, buffer, r.ok, r.err, r.v, <<>>, 0, r.depth)
       /\ UNCHANGED data

IsValid(buffer) ==
    /\ res' = Call("is_valid_flexbuffer", Null, buffer, is_valid_flexbuffer(buffer),
                   "", Null, <<>>, 0, 0)
    /\ UNCHANGED data

NextOneShot ==
    \/ \E value \in Values : OneShotSerialize(value)
    \/ \E buffer \in Buffers \cup {res.bytes} : OneShotDeserialize(buffer)
    \/ \E buffer \in Buffers \cup {res.bytes} : IsValid(buffer)

SpecOneShot == Init /\ [][NextOneShot]_vars

(***************************************************************************)
(* The properties.                                                         *)
(***************************************************************************)
\* the bytes encode stores for a value it accepts
Encoded(v) == take_buffer(serialize_value(v).root)

RECURSIVE ContainsInvalidNumber(_)
\* the value tree holds a Number with neither an i64 nor an f64 form
ContainsInvalidNumber(v) ==
    CASE v.t = "num" -> v.form = "none"
      [] v.t = "arr" -> \E k \in 1..Len(v.a) : ContainsInvalidNumber(v.a[k])
      [] v.t = "obj" -> \E key \in DOMAIN v.m : ContainsInvalidNumber(v.m[key])
      [] OTHER -> FALSE

RECURSIVE PlainLeaves(_)
\* every leaf is a Null, a Bool, an integer Number, or a String whose text
\* is not valid JSON
PlainLeaves(v) ==
    CASE v.t = "num" -> v.form = "int"
      [] v.t = "str" -> ~from_str(v.s).ok
      [] v.t = "arr" -> \A k \in 1..Len(v.a) : PlainLeaves(v.a[k])
      [] v.t = "obj" -> \A key \in DOMAIN v.m : PlainLeaves(v.m[key])
      [] OTHER -> TRUE

\* C1: a Null, a Bool, a String of any text, or a Number in integer or
\* float form decodes, after encode, to exactly itself.
C1_ScalarRoundTrip ==
    res.op = "deserialize" =>
        \A v \in ScalarValues \ {NoneNum} :
            data = Encoded(v) => res.ok /\ res.v = v

C3_RewrapAnyContainer ==
    LET c2 == from_buffer(get_buffer(data))
    IN c2.ok /\ FlexBuffer_deserialize(c2.data) = FlexBuffer_deserialize(data)

\* C3 as amended: for every reachable container that holds bytes,
\* from_buffer(get_buffer(c)) is a container whose decode has the outcome of
\* c's decode.
C3_RewrapNonEmptyContainer ==
    data # <<>> =>
        LET c2 == from_buffer(get_buffer(data))
        IN c2.ok /\ FlexBuffer_deserialize(c2.data) = FlexBuffer_deserialize(data)

C3_Witness ==
    /\ res.op = "from_buffer"
    /\ res.ok
    /\ res.buffer = data
    /\ data = Encoded(Array(<<IntNum(1), String(<<"x">>)>>))

\* C4: the stored bytes are empty or have a root get_root locates; they
\* become other non-empty bytes only by a successful encode or a successful
\* wrap; a wrap of bytes without a root fails and stores nothing.
C4_StoredBytesHaveRoot ==
    [][/\ data' = <<>> \/ get_root(data').ok
       /\ data' # <<>> /\ data' # data =>
              res'.op \in {"serialize", "from_buffer"} /\ res'.ok
       /\ res'.op = "from_buffer" /\ ~get_root(res'.buffer).ok =>
              ~res'.ok /\ data' = data]_vars

C4_Witness ==
    /\ res.op = "from_buffer"
    /\ ~res.ok
    /\ res.buffer # <<>>
    /\ data # <<>>

\* C5: an encode of a value tree that holds, at the root, in an Array or in
\* an Object, a Number with neither an i64 nor an f64 form fails with
\* InvalidNumber and leaves the stored bytes as they were.
C5_InvalidNumberAborts ==
    [][res'.op = "serialize" /\ ContainsInvalidNumber(res'.value) =>
           ~res'.ok /\ res'.err = InvalidNumber /\ data' = data]_vars

\* C6: the recursion of decode is bounded: it never goes deeper than a fixed
\* limit, here any limit up to the deepest nesting of the buffers given.
C6_RecursionBounded ==
    res.op = "deserialize" => res.depth <= MaxNest

\* the tags deserialize_value decodes
SupportedTypes ==
    {"Null", "Bool", "Int", "UInt", "Float", "String", "Map"} \cup VectorTypes

RECURSIVE KeptChildren(_, _)
\* the decoded children of a vector from the k-th on, those that fail left out
KeptChildren(reader, k) ==
    IF k > Len(reader.kids) THEN <<>>
    ELSE LET r == deserialize_value(idx(reader, k))
         IN (IF r.ok THEN <<r.v>> ELSE <<>>) \o KeptChildren(reader, k + 1)

\* the decoded entries of a map, those that fail left out
KeptEntries(reader) ==
    LET good == {k \in 1..Len(reader.kids) : deserialize_value(reader.kids[k]).ok}
    IN [key \in {reader.keys[k] : k \in good} |->
            deserialize_value(
                reader.kids[CHOOSE k \in good : reader.keys[k] = key]).v]

C8_EmptyBufferError ==
    /\ res.op = "deserialize" =>
           /\ res.err = EmptyBuffer <=> data = <<>>
           /\ data = <<>> => ~res.ok
    /\ res.op \in {"serialize", "from_buffer"} /\ res.ok =>
           data # <<>> /\ FlexBuffer_deserialize(data).err # EmptyBuffer
    /\ res.op = "new" => data = <<>>

C8_Witness ==
    /\ res.op = "deserialize"
    /\ res.err = EmptyBuffer
    /\ ~res.ok
    /\ data = <<>>

\* C9: is_valid_flexbuffer(bytes) is true exactly when get_root locates a
\* root, which is when from_buffer(bytes) succeeds; it is false for no
\* bytes and true for the bytes of every successful serialize.
C9_IsValidIffWrapSucceeds ==
    res.op = "is_valid_flexbuffer" =>
        /\ res.ok <=> from_buffer(res.buffer).ok
        /\ res.buffer = <<>> => ~res.ok
        /\ \A v \in Values :
               serialize(v).ok /\ res.buffer = serialize(v).bytes => res.ok

C9_Witness ==
    /\ res.op = "is_valid_flexbuffer"
    /\ res.ok
    /\ res.buffer = serialize(Object(<<"a">> :> IntNum(1) @@ <<"b">> :> IntNum(1))).bytes

\* C10: after a successful encode(v) the stored bytes are the bytes the
\* one-shot serialize(v) returns, whatever was stored before; decode,
\* get_buffer and size leave the stored bytes alone, and get_buffer and size
\* return them and their length.
C10_EncodeReplacesBytes ==
    [][/\ res'.op = "serialize" /\ res'.ok => data' = serialize(res'.value).bytes
       /\ res'.op \in {"deserialize", "get_buffer", "size"} => data' = data
       /\ res'.op = "get_buffer" => res'.bytes = data
       /\ res'.op = "size" => res'.n = Len(data)]_vars

C10_Witness ==
    /\ res.op = "get_buffer"
    /\ res.bytes = serialize(Array(<<Bool(TRUE), Bool(FALSE)>>)).bytes
    /\ data = res.bytes

====
